---- MODULE Spec2Model ----
(***************************************************************************)
(* BMI_calculator.py: a Streamlit script.  Every interaction with a widget *)
(* re-executes the whole script in a fresh namespace; the widget values    *)
(* (unit, height, weight, age, gender) are the only state that survives a  *)
(* rerun.  A press of the Calculate button reruns the script with          *)
(* calculate_button = True and evaluates the main block (lines 185-361).   *)
(*                                                                         *)
(* Numbers.  The script computes with IEEE-754 doubles.  Every constant    *)
(* and every widget value is a finite decimal, so a double is modelled by  *)
(* the exact rational number it approximates (sign, numerator and          *)
(* denominator, the latter two as arbitrary-precision naturals, because    *)
(* the products exceed 32 bits).  round() and the ".1f" format round to    *)
(* nearest; at an exact tie they round half to even, which is what Python  *)
(* does whenever the operands are exactly representable (e.g. the default  *)
(* 70 kg, 170 cm).  At a tie whose operands are not exactly representable  *)
(* the double's own representation error decides the direction; the        *)
(* rational model does not carry that error.                               *)
(***************************************************************************)
EXTENDS Integers, Sequences, FiniteSets, TLC

(***************************************************************************)
(* Arbitrary-precision naturals: little-endian sequences of limbs, no      *)
(* leading zero limb, <<>> is zero.                                        *)
(***************************************************************************)
Limb == 10 * 1000

RECURSIVE Nat2Big(_)
Nat2Big(n) == IF n = 0 THEN <<>> ELSE <<n % Limb>> \o Nat2Big(n \div Limb)

RECURSIVE Strip(_)
Strip(s) ==
    IF s # <<>> /\ s[Len(s)] = 0 THEN Strip(SubSeq(s, 1, Len(s) - 1)) ELSE s

LimbAt(s, i) == IF i <= Len(s) THEN s[i] ELSE 0

RECURSIVE CmpFrom(_, _, _)
CmpFrom(a, b, i) ==
    IF i = 0 THEN 0
    ELSE IF a[i] > b[i] THEN 1
    ELSE IF a[i] < b[i] THEN -1
    ELSE CmpFrom(a, b, i - 1)

\* -1, 0, 1 as a < b, a = b, a > b
BigCmp(a, b) ==
    IF Len(a) > Len(b) THEN 1
    ELSE IF Len(a) < Len(b) THEN -1
    ELSE CmpFrom(a, b, Len(a))

RECURSIVE AddFrom(_, _, _, _)
AddFrom(a, b, i, c) ==
    IF i > Len(a) /\ i > Len(b)
    THEN IF c = 0 THEN <<>> ELSE <<c>>
    ELSE LET t == LimbAt(a, i) + LimbAt(b, i) + c
         IN  <<t % Limb>> \o AddFrom(a, b, i + 1, t \div Limb)

BigAdd(a, b) == AddFrom(a, b, 1, 0)

RECURSIVE SubFrom(_, _, _, _)
SubFrom(a, b, i, br) ==
    IF i > Len(a) THEN <<>>
    ELSE LET t == a[i] - LimbAt(b, i) - br
         IN  IF t < 0 THEN <<t + Limb>> \o SubFrom(a, b, i + 1, 1)
                      ELSE <<t>> \o SubFrom(a, b, i + 1, 0)

\* a - b, for a >= b
BigSub(a, b) == Strip(SubFrom(a, b, 1, 0))

RECURSIVE ScaleFrom(_, _, _, _)
ScaleFrom(a, m, i, c) ==
    IF i > Len(a) THEN Nat2Big(c)
    ELSE LET t == a[i] * m + c
         IN  <<t % Limb>> \o ScaleFrom(a, m, i + 1, t \div Limb)

\* a * m, for a machine integer 0 <= m < 2^17
BigScale(a, m) == IF m = 0 THEN <<>> ELSE ScaleFrom(a, m, 1, 0)

RECURSIVE MulFrom(_, _, _)
MulFrom(a, b, i) ==
    IF i > Len(b) THEN <<>>
    ELSE BigAdd(BigScale(a, b[i]), <<0>> \o MulFrom(a, b, i + 1))

BigMul(a, b) == Strip(MulFrom(a, b, 1))

RECURSIVE DivSearch(_, _, _, _)
DivSearch(n, d, q, step) ==
    IF step = 0 THEN q
    ELSE IF BigCmp(BigScale(d, q + step), n) <= 0
         THEN DivSearch(n, d, q + step, step \div 2)
         ELSE DivSearch(n, d, q, step \div 2)

\* floor(n / d) as a machine integer, for d > 0 and a quotient below 2^17
BigDiv(n, d) == DivSearch(n, d, 0, 2^16)

(***************************************************************************)
(* Python floats, as exact rationals sg * n / d.                           *)
(***************************************************************************)
Rat(sg, n, d) == [sg |-> IF n = <<>> THEN 1 ELSE sg, n |-> n, d |-> d]

\* the decimal literal m * 10^-e
Dec(m, e) ==
    Rat(IF m < 0 THEN -1 ELSE 1, Nat2Big(IF m < 0 THEN -m ELSE m), Nat2Big(10^e))

IsZero(x) == x.n = <<>>

Neg(x) == Rat(-x.sg, x.n, x.d)

Abs(x) == Rat(1, x.n, x.d)

Mul(x, y) == Rat(x.sg * y.sg, BigMul(x.n, y.n), BigMul(x.d, y.d))

\* x / y, for y # 0
Div(x, y) == Rat(x.sg * y.sg, BigMul(x.n, y.d), BigMul(x.d, y.n))

Add(x, y) ==
    LET a == BigMul(x.n, y.d)
        b == BigMul(y.n, x.d)
        d == BigMul(x.d, y.d)
    IN  IF x.sg = y.sg THEN Rat(x.sg, BigAdd(a, b), d)
        ELSE IF BigCmp(a, b) >= 0 THEN Rat(x.sg, BigSub(a, b), d)
        ELSE Rat(y.sg, BigSub(b, a), d)

Sub(x, y) == Add(x, Neg(y))

\* x < y
Less(x, y) == LET z == Sub(x, y) IN z.sg = -1

\* x = y as numbers (the representations need not be reduced)
Eq(x, y) == IsZero(Sub(x, y))

\* round(x): the nearest integer, ties to even, as a Python int
round_int(x) ==
    LET q == BigDiv(x.n, x.d)
        r == BigSub(x.n, BigScale(x.d, q))
        c == BigCmp(BigScale(r, 2), x.d)
        m == IF c > 0 \/ (c = 0 /\ q % 2 = 1) THEN q + 1 ELSE q
    IN  x.sg * m

\* round(x, ndigits): a float with ndigits decimals
round(x, ndigits) == Dec(round_int(Mul(x, Dec(10^ndigits, 0))), ndigits)

\* f"{x:.1f}" for x >= 0
format_1f(x) ==
    LET k == round_int(Mul(x, Dec(10, 0)))
    IN  ToString(k \div 10) \o "." \o ToString(k % 10)

(***************************************************************************)
(* The calculators, lines 72-162.                                          *)
(***************************************************************************)
None == "None"

ZeroDivisionError == [exc |-> "ZeroDivisionError"]

Raised(v) == "exc" \in DOMAIN v

calculate_bmi_inch_typo(weight, height, unit) ==
    LET weight_kg == IF unit = "Imperial" THEN Mul(weight, Dec(453592, 6))
                                          ELSE weight
        height_m  == IF unit = "Imperial" THEN Mul(height, Dec(25, 3))
                                          ELSE Div(height, Dec(100, 0))
        square    == Mul(height_m, height_m)
    IN  IF IsZero(square) THEN ZeroDivisionError
        ELSE round(Div(weight_kg, square), 1)

calculate_bmi_inverted(weight, height, unit) ==
    LET weight_kg == IF unit = "Imperial" THEN Mul(weight, Dec(453592, 6))
                                          ELSE weight
        height_m  == IF unit = "Imperial" THEN Mul(height, Dec(254, 4))
                                          ELSE Div(height, Dec(100, 0))
        square    == Mul(height_m, height_m)
    IN  IF IsZero(weight_kg) THEN ZeroDivisionError
        ELSE round(Div(square, weight_kg), 1)

calculate_bmi_metric_first(weight, height, unit) ==
    LET weight_kg == IF unit = "Metric" THEN weight
                                        ELSE Mul(weight, Dec(453592, 6))
        height_m  == IF unit = "Metric" THEN Div(height, Dec(100, 0))
                                        ELSE Mul(height, Dec(254, 4))
        square    == Mul(height_m, height_m)
    IN  IF IsZero(square) THEN ZeroDivisionError
        ELSE round(Div(weight_kg, square), 1)

\* lines 72-84; line 83 raises ZeroDivisionError when height_m ** 2 is 0
calculate_bmi(weight, height, unit) ==
    LET weight_kg == IF unit = "Imperial" THEN Mul(weight, Dec(453592, 6))
                                          ELSE weight
        height_m  == IF unit = "Imperial" THEN Mul(height, Dec(254, 4))
                                          ELSE Div(height, Dec(100, 0))
        square    == Mul(height_m, height_m)
    IN  IF IsZero(square) THEN ZeroDivisionError
        ELSE round(Div(weight_kg, square), 1)

get_bmi_category_inclusive(bmi) ==
    IF ~Less(Dec(185, 1), bmi) THEN "Underweight"
    ELSE IF Less(bmi, Dec(25, 0)) THEN "Normal Weight"
    ELSE IF Less(bmi, Dec(30, 0)) THEN "Overweight"
    ELSE "Obese"

\* lines 86-95
get_bmi_category(bmi) ==
    IF Less(bmi, Dec(185, 1)) THEN "Underweight"
    ELSE IF Less(bmi, Dec(25, 0)) THEN "Normal Weight"
    ELSE IF Less(bmi, Dec(30, 0)) THEN "Overweight"
    ELSE "Obese"

\* lines 97-106
get_bmi_color(bmi) ==
    IF Less(bmi, Dec(185, 1)) THEN "#3182ce"
    ELSE IF Less(bmi, Dec(25, 0)) THEN "#38a169"
    ELSE IF Less(bmi, Dec(30, 0)) THEN "#d69e2e"
    ELSE "#e53e3e"

calculate_ideal_weight_rounded_kg(height, gender, unit) ==
    LET height_cm == IF unit = "Imperial" THEN Mul(height, Dec(254, 2)) ELSE height
        devine    == Mul(Dec(23, 1), Div(Sub(height_cm, Dec(1524, 1)), Dec(254, 2)))
        ideal_weight == IF gender = "Male" THEN Add(Dec(50, 0), devine)
                                           ELSE Add(Dec(455, 1), devine)
    IN  IF unit = "Imperial"
        THEN round_int(Mul(Dec(round_int(ideal_weight), 0), Dec(220462, 5)))
        ELSE round_int(ideal_weight)

\* lines 108-119
calculate_ideal_weight(height, gender, unit) ==
    LET height_cm == IF unit = "Imperial" THEN Mul(height, Dec(254, 2)) ELSE height
        devine    == Mul(Dec(23, 1), Div(Sub(height_cm, Dec(1524, 1)), Dec(254, 2)))
        ideal_weight == IF gender = "Male" THEN Add(Dec(50, 0), devine)
                                           ELSE Add(Dec(455, 1), devine)
    IN  IF unit = "Imperial" THEN round_int(Mul(ideal_weight, Dec(220462, 5)))
        ELSE round_int(ideal_weight)

calculate_bmr_pounds_as_kg(weight, height, age, gender, unit) ==
    LET weight_kg == weight
        height_cm == IF unit = "Imperial" THEN Mul(height, Dec(254, 2)) ELSE height
        common    == Sub(Add(Mul(Dec(10, 0), weight_kg), Mul(Dec(625, 2), height_cm)),
                         Mul(Dec(5, 0), Dec(age, 0)))
        bmr_value == IF gender = "Male" THEN Add(common, Dec(5, 0))
                                        ELSE Sub(common, Dec(161, 0))
    IN  round_int(bmr_value)

\* lines 121-131
calculate_bmr(weight, height, age, gender, unit) ==
    LET weight_kg == IF unit = "Imperial" THEN Mul(weight, Dec(453592, 6)) ELSE weight
        height_cm == IF unit = "Imperial" THEN Mul(height, Dec(254, 2)) ELSE height
        common    == Sub(Add(Mul(Dec(10, 0), weight_kg), Mul(Dec(625, 2), height_cm)),
                         Mul(Dec(5, 0), Dec(age, 0)))
        bmr_value == IF gender = "Male" THEN Add(common, Dec(5, 0))
                                        ELSE Sub(common, Dec(161, 0))
    IN  round_int(bmr_value)

\* lines 137-160: the list of each branch (the leading pictograph of each
\* string is left out)
advice(bmi_category) ==
    IF bmi_category = "Underweight" THEN
        << "Focus on nutrient-dense, calorie-rich foods like nuts, seeds, avocados, and lean proteins",
           "Include strength training exercises to build muscle mass along with cardiovascular fitness",
           "Consider consulting with a nutritionist to develop a healthy weight gain plan" >>
    ELSE IF bmi_category = "Normal Weight" THEN
        << "Maintain your current healthy lifestyle with balanced nutrition and regular exercise",
           "Continue with 150 minutes of moderate aerobic activity or 75 minutes vigorous activity weekly",
           "Focus on whole foods, fruits, vegetables, lean proteins, and whole grains" >>
    ELSE IF bmi_category = "Overweight" THEN
        << "Aim for gradual weight loss of 1-2 pounds per week through caloric deficit",
           "Increase physical activity to 300+ minutes of moderate exercise per week",
           "Focus on portion control and include more vegetables, lean proteins, and whole grains" >>
    ELSE
        << "Consult with a healthcare provider to develop a comprehensive weight management plan",
           "Start with low-impact exercises and gradually increase intensity as fitness improves",
           "Consider working with a registered dietitian for personalized meal planning" >>

\* lines 133-162: the list starts empty (line 135) and is the branch's list
get_recommendations(bmi_category, age, gender) ==
    <<>> \o advice(bmi_category)

(***************************************************************************)
(* The sidebar widgets, lines 165-182.  A number_input holds a value       *)
(* between min_value and max_value and starts at value; the numbers below  *)
(* count steps of the widget (0.1 for height and weight, 1 for age).  The  *)
(* values the model lets the user enter are min_value, max_value, the      *)
(* default and the points of an even grid between the two ends.            *)
(***************************************************************************)
HeightPoints == 4
WeightPoints == 4
AgePoints == 2

\* lines 173, 176
height_input(u) ==
    IF u = "Metric" THEN [min_value |-> 1000, max_value |-> 2500, value |-> 1700]
                    ELSE [min_value |-> 480, max_value |-> 960, value |-> 670]

\* lines 174, 177
weight_input(u) ==
    IF u = "Metric" THEN [min_value |-> 300, max_value |-> 3000, value |-> 700]
                    ELSE [min_value |-> 660, max_value |-> 6600, value |-> 1540]

\* line 179
age_input == [min_value |-> 1, max_value |-> 120, value |-> 25]

\* line 169
Units == {"Metric", "Imperial"}

\* line 180
Genders == {"Male", "Female"}

\* the values offered for a widget w with the given number of grid points
Entries(w, points) ==
    LET stride == (w.max_value - w.min_value) \div points
    IN  {w.min_value, w.max_value, w.value}
        \cup {v \in {w.min_value + k * stride : k \in 0..points} : v <= w.max_value}

HeightEntries(u) == {Dec(v, 1) : v \in Entries(height_input(u), HeightPoints)}

WeightEntries(u) == {Dec(v, 1) : v \in Entries(weight_input(u), WeightPoints)}

AgeEntries == Entries(age_input, AgePoints)

(***************************************************************************)
(* The main block, lines 185-361.                                          *)
(***************************************************************************)
\* line 247
weight_unit_of(u) == IF u = "Metric" THEN "kg" ELSE "lbs"

target_weight_of_kg_only(bmi_category, h, u) ==
    LET normal_bmi == IF bmi_category = "Underweight" THEN Dec(185, 1) ELSE Dec(249, 1)
        metres     == IF u = "Metric" THEN Div(h, Dec(100, 0))
                                      ELSE Mul(h, Dec(254, 4))
    IN  IF bmi_category = "Normal Weight" THEN None
        ELSE Mul(normal_bmi, Mul(metres, metres))

target_weight_of_threshold(bmi_category, h, u) ==
    LET normal_bmi == IF bmi_category = "Underweight" THEN Dec(185, 1) ELSE Dec(25, 0)
        metres     == IF u = "Metric" THEN Div(h, Dec(100, 0))
                                      ELSE Mul(h, Dec(254, 4))
        kilograms  == Mul(normal_bmi, Mul(metres, metres))
    IN  IF bmi_category = "Normal Weight" THEN None
        ELSE IF u = "Metric" THEN kilograms
        ELSE Mul(kilograms, Dec(220462, 5))

\* lines 265-280: target_weight (not bound in the Normal Weight branch)
target_weight_of(bmi_category, h, u) ==
    LET normal_bmi == IF bmi_category = "Underweight" THEN Dec(185, 1) ELSE Dec(249, 1)
        metres     == IF u = "Metric" THEN Div(h, Dec(100, 0))
                                      ELSE Mul(h, Dec(254, 4))
        kilograms  == Mul(normal_bmi, Mul(metres, metres))
    IN  IF bmi_category = "Normal Weight" THEN None
        ELSE IF u = "Metric" THEN kilograms
        ELSE Mul(kilograms, Dec(220462, 5))

weight_goal_of_overweight_only(bmi_category, w, target, weight_unit) ==
    IF bmi_category = "Underweight"
    THEN "+" \o format_1f(Abs(Sub(target, w))) \o " " \o weight_unit
    ELSE IF bmi_category = "Overweight"
    THEN "-" \o format_1f(Abs(Sub(w, target))) \o " " \o weight_unit
    ELSE "Maintain current weight"

\* lines 265-280: weight_goal
weight_goal_of(bmi_category, w, target, weight_unit) ==
    IF bmi_category = "Underweight"
    THEN "+" \o format_1f(Abs(Sub(target, w))) \o " " \o weight_unit
    ELSE IF bmi_category \in {"Overweight", "Obese"}
    THEN "-" \o format_1f(Abs(Sub(w, target))) \o " " \o weight_unit
    ELSE "Maintain current weight"

\* lines 330-349
health_info(bmi_category) ==
    IF bmi_category = "Underweight" THEN
        [risks    |-> <<"Weakened immune system", "Osteoporosis risk", "Delayed wound healing">>,
         benefits |-> <<"Lower risk of heart disease", "Reduced joint stress">>]
    ELSE IF bmi_category = "Normal Weight" THEN
        [risks    |-> <<"Generally low health risks">>,
         benefits |-> <<"Optimal health status", "Lower disease risk", "Better energy levels">>]
    ELSE IF bmi_category = "Overweight" THEN
        [risks    |-> <<"Increased diabetes risk", "High blood pressure", "Sleep apnea">>,
         benefits |-> <<"Can be reversed with lifestyle changes">>]
    ELSE
        [risks    |-> <<"Heart disease", "Type 2 diabetes", "Stroke risk", "Certain cancers">>,
         benefits |-> <<"Significant health improvements possible with weight loss">>]

VARIABLES
    unit, height, weight, age, gender,   \* the widget values (lines 169-180)
    calculate_button,                    \* line 182: this run was started by the button
    bmi, category, color, ideal_weight, bmr, recommendations,   \* lines 187-192
    target_weight, weight_goal,          \* lines 265-280
    current_info,                        \* line 349
    earlier,                             \* an earlier request and what was displayed for it
    call, ret                            \* a direct call of a calculator and its outcome

inputs == <<unit, height, weight, age, gender>>

outputs == <<bmi, category, color, ideal_weight, bmr, recommendations,
             target_weight, weight_goal, current_info>>

vars == <<inputs, calculate_button, outputs, earlier, call, ret>>

\* a run that was not started by the button takes the else branch (lines 363-375):
\* none of the main block's names is bound
Welcome ==
    /\ calculate_button' = FALSE
    /\ bmi' = None /\ category' = None /\ color' = None
    /\ ideal_weight' = None /\ bmr' = None /\ recommendations' = None
    /\ target_weight' = None /\ weight_goal' = None /\ current_info' = None

Init ==
    /\ unit = "Metric"
    /\ height = Dec(height_input("Metric").value, 1)
    /\ weight = Dec(weight_input("Metric").value, 1)
    /\ age = age_input.value
    /\ gender = "Male"
    /\ calculate_button = FALSE
    /\ bmi = None /\ category = None /\ color = None
    /\ ideal_weight = None /\ bmr = None /\ recommendations = None
    /\ target_weight = None /\ weight_goal = None /\ current_info = None
    /\ earlier = [seen |-> FALSE]
    /\ call = [fn |-> None]
    /\ ret = [value |-> None]

\* line 169; the height and weight widgets of the other unit system are other
\* widgets and start from their defaults
SelectUnit(u) ==
    /\ u # unit
    /\ unit' = u
    /\ height' = Dec(height_input(u).value, 1)
    /\ weight' = Dec(weight_input(u).value, 1)
    /\ UNCHANGED <<age, gender>>
    /\ Welcome

\* lines 173, 176
EnterHeight(h) ==
    /\ h # height
    /\ height' = h
    /\ UNCHANGED <<unit, weight, age, gender>>
    /\ Welcome

\* lines 174, 177
EnterWeight(w) ==
    /\ w # weight
    /\ weight' = w
    /\ UNCHANGED <<unit, height, age, gender>>
    /\ Welcome

\* line 179
EnterAge(a) ==
    /\ a # age
    /\ age' = a
    /\ UNCHANGED <<unit, height, weight, gender>>
    /\ Welcome

\* line 180
SelectGender(g) ==
    /\ g # gender
    /\ gender' = g
    /\ UNCHANGED <<unit, height, weight, age>>
    /\ Welcome

Calculate_kept ==
    /\ calculate_button' = TRUE
    /\ bmi' = calculate_bmi(weight, height, unit)
    /\ category' = get_bmi_category(bmi')
    /\ color' = get_bmi_color(bmi')
    /\ ideal_weight' = calculate_ideal_weight(height, gender, unit)
    /\ bmr' = calculate_bmr(weight, height, age, gender, unit)
    /\ recommendations' = (IF calculate_button THEN recommendations ELSE <<>>)
                              \o advice(category')
    /\ target_weight' = target_weight_of(category', height, unit)
    /\ weight_goal' = weight_goal_of(category', weight, target_weight', weight_unit_of(unit))
    /\ current_info' = health_info(category')
    /\ UNCHANGED inputs

\* line 182 and the main block, lines 185-361
Calculate ==
    /\ calculate_button' = TRUE
    /\ bmi' = calculate_bmi(weight, height, unit)
    /\ category' = get_bmi_category(bmi')
    /\ color' = get_bmi_color(bmi')
    /\ ideal_weight' = calculate_ideal_weight(height, gender, unit)
    /\ bmr' = calculate_bmr(weight, height, age, gender, unit)
    /\ recommendations' = get_recommendations(category', age, gender)
    /\ target_weight' = target_weight_of(category', height, unit)
    /\ weight_goal' = weight_goal_of(category', weight, target_weight', weight_unit_of(unit))
    /\ current_info' = health_info(category')
    /\ UNCHANGED inputs

(***************************************************************************)
(* Spec: a session of the application.                                     *)
(***************************************************************************)
Next ==
    /\ \/ \E u \in Units : SelectUnit(u)
       \/ \E h \in HeightEntries(unit) : EnterHeight(h)
       \/ \E w \in WeightEntries(unit) : EnterWeight(w)
       \/ \E a \in AgeEntries : EnterAge(a)
       \/ \E g \in Genders : SelectGender(g)
       \/ Calculate
    /\ UNCHANGED <<earlier, call, ret>>

Spec == Init /\ [][Next]_vars

(***************************************************************************)
(* SpecHist: a session watched by an observer who, whenever a displayed    *)
(* result is about to be replaced (by a rerun of either kind), may note    *)
(* down the request and what was displayed for it.  The user enters the    *)
(* ends and the default of the height and weight widgets, and the default  *)
(* and the maximum age.                                                    *)
(***************************************************************************)
Ends(w) == {w.min_value, w.value, w.max_value}

Observe ==
    \/ UNCHANGED earlier
    \/ /\ calculate_button
       /\ earlier' = [seen |-> TRUE, inputs |-> inputs, outputs |-> outputs]

NextHist ==
    /\ \/ \E u \in Units : SelectUnit(u)
       \/ \E h \in {Dec(v, 1) : v \in Ends(height_input(unit))} : EnterHeight(h)
       \/ \E w \in {Dec(v, 1) : v \in Ends(weight_input(unit))} : EnterWeight(w)
       \/ \E a \in {age_input.value, age_input.max_value} : EnterAge(a)
       \/ \E g \in Genders : SelectGender(g)
       \/ Calculate
    /\ Observe
    /\ UNCHANGED <<call, ret>>

SpecHist == Init /\ [][NextHist]_vars

(***************************************************************************)
(* SpecCalc: the calculators called directly, with arguments inside and    *)
(* outside the ranges the widgets enforce.                                 *)
(***************************************************************************)
MaxBmiTenths == 320

ArgWeights ==
    UNION {WeightEntries(u) : u \in Units} \cup {Dec(0, 0), Dec(-700, 1)}

ArgHeights ==
    UNION {HeightEntries(u) : u \in Units} \cup {Dec(0, 0), Dec(-1700, 1)}

ArgAges == {age_input.value, age_input.max_value, 0}

ArgUnits == Units \cup {"Stone"}

ArgGenders == Genders \cup {"Other"}

\* a call is made when no call is in progress
Idle == call.fn = None

\* what the caller sees: the value returned, or the exception raised
Outcome(v) == IF Raised(v) THEN v ELSE [value |-> v]

CallBmi(w, h, u) ==
    /\ Idle
    /\ call' = [fn |-> "calculate_bmi", weight |-> w, height |-> h, unit |-> u]
    /\ ret' = Outcome(calculate_bmi(w, h, u))

CallCategory(b) ==
    /\ Idle
    /\ call' = [fn |-> "get_bmi_category", bmi |-> b]
    /\ ret' = [value |-> get_bmi_category(b)]

CallIdealWeight(h, g, u) ==
    /\ Idle
    /\ call' = [fn |-> "calculate_ideal_weight", height |-> h, gender |-> g, unit |-> u]
    /\ ret' = [value |-> calculate_ideal_weight(h, g, u)]

CallBmr(w, h, a, g, u) ==
    /\ Idle
    /\ call' = [fn |-> "calculate_bmr", weight |-> w, height |-> h, age |-> a,
                gender |-> g, unit |-> u]
    /\ ret' = [value |-> calculate_bmr(w, h, a, g, u)]

\* the caller has taken the outcome
Return ==
    /\ ~Idle
    /\ call' = [fn |-> None]
    /\ ret' = [value |-> None]

NextCalc ==
    /\ \/ \E w \in ArgWeights, h \in ArgHeights, u \in ArgUnits : CallBmi(w, h, u)
       \/ \E k \in 0..MaxBmiTenths : CallCategory(Dec(k, 1))
       \/ \E h \in ArgHeights, g \in ArgGenders, u \in ArgUnits : CallIdealWeight(h, g, u)
       \/ \E w \in ArgWeights, h \in ArgHeights, a \in ArgAges,
             g \in ArgGenders, u \in ArgUnits : CallBmr(w, h, a, g, u)
       \/ Return
    /\ UNCHANGED <<inputs, calculate_button, outputs, earlier>>

SpecCalc == Init /\ [][NextCalc]_vars

(***************************************************************************)
(* Vocabulary of the properties.                                           *)
(***************************************************************************)
Positive(x) == Less(Dec(0, 0), x)

LessEq(x, y) == ~Less(y, x)

\* the one-decimal number x counted in tenths
Tenths(x) == round_int(Mul(x, Dec(10, 0)))

\* the integer m is an integer nearest to x: |x - m| <= 1/2
Nearest(m, x) ==
    LessEq(Abs(Sub(Mul(x, Dec(2, 0)), Dec(2 * m, 0))), Dec(1, 0))

\* the numbers of tenths that are x >= 0 rounded to 1 decimal place
OneDecimal(x) ==
    LET tenfold == Mul(x, Dec(10, 0))
        floor   == BigDiv(tenfold.n, tenfold.d)
    IN  {m \in {floor, floor + 1} : Nearest(m, tenfold)}

\* the text of m tenths
Text(m) == ToString(m \div 10) \o "." \o ToString(m % 10)

\* normal_bmi x heightM^2 for the entered height, in the entered unit
GoalTarget(normal_bmi) ==
    LET heightM == IF unit = "Imperial" THEN Mul(height, Dec(254, 4))
                                        ELSE Div(height, Dec(100, 0))
        kilograms == Mul(normal_bmi, Mul(heightM, heightM))
    IN  IF unit = "Imperial" THEN Mul(kilograms, Dec(220462, 5)) ELSE kilograms

UnitLabel == IF unit = "Imperial" THEN "lbs" ELSE "kg"

\* a calculator was called with an argument outside its domain
InvalidArguments ==
    /\ call.fn \in {"calculate_bmi", "calculate_ideal_weight", "calculate_bmr"}
    /\ \/ ~Positive(call.height)
       \/ call.unit \notin Units
       \/ "weight" \in DOMAIN call /\ ~Positive(call.weight)
       \/ "age" \in DOMAIN call /\ call.age <= 0
       \/ "gender" \in DOMAIN call /\ call.gender \notin Genders

\* the unit system and the gender a calculator's tests take an argument for
AsUnit(u) == IF u = "Imperial" THEN "Imperial" ELSE "Metric"

AsGender(g) == IF g = "Male" THEN "Male" ELSE "Female"

\* the outcome of the call in progress had its unit and gender been the ones
\* its tests take them for
Coerced ==
    IF call.fn = "calculate_bmi"
    THEN Outcome(calculate_bmi(call.weight, call.height, AsUnit(call.unit)))
    ELSE IF call.fn = "calculate_ideal_weight"
    THEN [value |-> calculate_ideal_weight(call.height, AsGender(call.gender),
                                           AsUnit(call.unit))]
    ELSE [value |-> calculate_bmr(call.weight, call.height, call.age,
                                  AsGender(call.gender), AsUnit(call.unit))]

(***************************************************************************)
(* C1.  get_bmi_category is a total threshold lookup on the one-decimal    *)
(* BMI b: it returns Underweight iff b < 18.5, Normal Weight iff           *)
(* 18.5 <= b < 25, Overweight iff 25 <= b < 30 and Obese iff b >= 30, so   *)
(* each boundary value belongs to the upper category and exactly one       *)
(* category is returned.  (SpecCalc)                                       *)
(***************************************************************************)
C1_CategoryThresholds ==
    call.fn = "get_bmi_category" =>
        LET b == Tenths(call.bmi)
        IN  /\ (ret.value = "Underweight") <=> (b < 185)
            /\ (ret.value = "Normal Weight") <=> (185 <= b /\ b < 250)
            /\ (ret.value = "Overweight") <=> (250 <= b /\ b < 300)
            /\ (ret.value = "Obese") <=> (b >= 300)

C1_Witness ==
    /\ call.fn = "get_bmi_category"
    /\ call.bmi = Dec(185, 1)
    /\ ret.value = "Normal Weight"

(***************************************************************************)
(* C2, as stated.  A calculator called with height <= 0, weight <= 0,      *)
(* age <= 0, a unit outside {Metric, Imperial} or a gender outside         *)
(* {Male, Female} raises InvalidInput to the caller.  (SpecCalc; violated) *)
(***************************************************************************)
C2_InvalidInputRaised ==
    InvalidArguments => ret = [exc |-> "InvalidInput"]

(***************************************************************************)
(* C2, amended.  The calculators do not validate their arguments.  Called  *)
(* with height <= 0, weight <= 0, age <= 0, an unknown unit or an unknown  *)
(* gender, a calculator evaluates its formula on the arguments as given,   *)
(* taking a unit other than Imperial for Metric and a gender other than    *)
(* Male for Female, and returns a number; the only error is the            *)
(* ZeroDivisionError of calculate_bmi when height = 0 reaches the          *)
(* division.  (SpecCalc)                                                   *)
(***************************************************************************)
C2_NoValidation ==
    InvalidArguments =>
        /\ Raised(ret) <=> (call.fn = "calculate_bmi" /\ IsZero(call.height))
        /\ Raised(ret) => ret = ZeroDivisionError
        /\ ret = Coerced

C2_Witness ==
    /\ call.fn = "calculate_bmi"
    /\ call.weight = Dec(700, 1)
    /\ IsZero(call.height)
    /\ ret = ZeroDivisionError

(***************************************************************************)
(* C3.  The weight goal is determined by the category: Normal Weight gives *)
(* Maintain; Underweight gives '+' and |target - current| with             *)
(* target = 18.5 x heightM^2; Overweight or Obese gives '-' and            *)
(* |current - target| with target = 24.9 x heightM^2; for Imperial         *)
(* heightM = inches x 0.0254 and the target is converted to pounds         *)
(* (x 2.20462) before the difference is taken; the magnitude is shown      *)
(* rounded to 1 decimal place, followed by the unit.  (Spec)               *)
(***************************************************************************)
C3_WeightGoal ==
    calculate_button =>
        /\ category = "Normal Weight" => weight_goal = "Maintain current weight"
        /\ category = "Underweight" =>
               \E m \in OneDecimal(Abs(Sub(GoalTarget(Dec(185, 1)), weight))) :
                   weight_goal = "+" \o Text(m) \o " " \o UnitLabel
        /\ category \in {"Overweight", "Obese"} =>
               \E m \in OneDecimal(Abs(Sub(weight, GoalTarget(Dec(249, 1))))) :
                   weight_goal = "-" \o Text(m) \o " " \o UnitLabel

C3_Witness ==
    /\ calculate_button
    /\ unit = "Metric" /\ height = Dec(1700, 1) /\ weight = Dec(300, 1)
    /\ category = "Underweight"
    /\ weight_goal = "+23.5 kg"

C5_Bmr ==
    (/\ call.fn = "calculate_bmr"
     /\ call.unit \in Units
     /\ call.gender \in Genders) =>
        LET weightKg == IF call.unit = "Imperial"
                        THEN Mul(call.weight, Dec(453592, 6)) ELSE call.weight
            heightCm == IF call.unit = "Imperial"
                        THEN Mul(call.height, Dec(254, 2)) ELSE call.height
            s        == IF call.gender = "Male" THEN Dec(5, 0) ELSE Dec(-161, 0)
        IN  /\ ret.value \in Int
            /\ Nearest(ret.value,
                       Add(Sub(Add(Mul(Dec(10, 0), weightKg), Mul(Dec(625, 2), heightCm)),
                               Mul(Dec(5, 0), Dec(call.age, 0))), s))

C5_Witness ==
    /\ call.fn = "calculate_bmr"
    /\ call.weight = Dec(700, 1) /\ call.height = Dec(1750, 1) /\ call.age = 25
    /\ call.gender = "Male" /\ call.unit = "Metric"
    /\ ret.value = 1674

(***************************************************************************)
(* C6.  calculate_ideal_weight rounds once, at the end: with               *)
(* k = base + 2.3 x ((heightCm - 152.4) / 2.54), base = 50 for Male and    *)
(* 45.5 for Female, heightCm = inches x 2.54 for Imperial, the result is   *)
(* round(k) for Metric and round(k x 2.20462) for Imperial; 170 cm, Male,  *)
(* Metric gives 66.  (SpecCalc)                                            *)
(***************************************************************************)
C6_IdealWeight ==
    (/\ call.fn = "calculate_ideal_weight"
     /\ call.unit \in Units
     /\ call.gender \in Genders) =>
        LET heightCm == IF call.unit = "Imperial"
                        THEN Mul(call.height, Dec(254, 2)) ELSE call.height
            base     == IF call.gender = "Male" THEN Dec(50, 0) ELSE Dec(455, 1)
            k        == Add(base, Mul(Dec(23, 1),
                                      Div(Sub(heightCm, Dec(1524, 1)), Dec(254, 2))))
        IN  /\ ret.value \in Int
            /\ Nearest(ret.value,
                       IF call.unit = "Imperial" THEN Mul(k, Dec(220462, 5)) ELSE k)

C6_Witness ==
    /\ call.fn = "calculate_ideal_weight"
    /\ call.height = Dec(1700, 1) /\ call.gender = "Male" /\ call.unit = "Metric"
    /\ ret.value = 66

(***************************************************************************)
(* C7.  For height > 0 and weight > 0 in either unit system the rounded    *)
(* BMI is monotonically increasing in weight at fixed height and           *)
(* monotonically decreasing in height at fixed weight.  (SpecCalc)         *)
(***************************************************************************)
C7_Monotone ==
    (/\ call.fn = "calculate_bmi"
     /\ call.unit \in Units
     /\ Positive(call.weight)
     /\ Positive(call.height)) =>
        /\ \A w2 \in ArgWeights :
               LessEq(call.weight, w2) =>
                   LessEq(ret.value, calculate_bmi(w2, call.height, call.unit))
        /\ \A h2 \in ArgHeights :
               LessEq(call.height, h2) =>
                   LessEq(calculate_bmi(call.weight, h2, call.unit), ret.value)

C7_Witness ==
    /\ call.fn = "calculate_bmi"
    /\ call.unit = "Metric"
    /\ call.weight = Dec(700, 1)
    /\ call.height = Dec(1700, 1)
    /\ ret = [value |-> Dec(242, 1)]

(***************************************************************************)
(* C8.  What is displayed for a request is a function of the request's     *)
(* inputs alone: a request with the inputs of an earlier request displays  *)
(* the outputs displayed then, whatever was requested in between.          *)
(* (SpecHist)                                                              *)
(***************************************************************************)
C8_FunctionOfInputs ==
    (calculate_button /\ earlier.seen /\ earlier.inputs = inputs) =>
        earlier.outputs = outputs

C8_Witness ==
    /\ calculate_button
    /\ earlier.seen
    /\ earlier.inputs = inputs
    /\ earlier.outputs = outputs
    /\ unit = "Imperial" /\ gender = "Female" /\ age = age_input.max_value

(***************************************************************************)
(* C9.  The sign of the weight goal agrees with the real difference: for   *)
(* every input the form accepts, Underweight implies target > current and  *)
(* Overweight or Obese implies current > target, the target being          *)
(* 18.5 (resp. 24.9) x heightM^2 in the input unit.  (Spec)                *)
(***************************************************************************)
C9_SignAgrees ==
    calculate_button =>
        /\ category = "Underweight" =>
               /\ Eq(target_weight, GoalTarget(Dec(185, 1)))
               /\ Less(weight, target_weight)
        /\ category \in {"Overweight", "Obese"} =>
               /\ Eq(target_weight, GoalTarget(Dec(249, 1)))
               /\ Less(target_weight, weight)

C9_Witness ==
    /\ calculate_button
    /\ unit = "Imperial"
    /\ category = "Obese"
    /\ Less(target_weight, weight)

(***************************************************************************)
(* C10.  Reaching the goal lands in the healthy range: for every input the *)
(* form accepts whose category is not Normal Weight, calculate_bmi and     *)
(* get_bmi_category applied to the target weight with the same height and  *)
(* unit give Normal Weight.  (Spec)                                        *)
(***************************************************************************)
C10_GoalIsNormal ==
    (calculate_button /\ category # "Normal Weight") =>
        get_bmi_category(calculate_bmi(target_weight, height, unit)) = "Normal Weight"

C10_Witness ==
    /\ calculate_button
    /\ unit = "Metric"
    /\ category = "Overweight"
    /\ get_bmi_category(calculate_bmi(target_weight, height, unit)) = "Normal Weight"
====
